---- MODULE Spec2Model ----
(***************************************************************************)
(* Model of the core pipeline of admet_docking_prioritizer.py: the body    *)
(* of the "Analyze & Prioritize Candidates" button handler (lines 48-181). *)
(*                                                                         *)
(* Units.  Docking scores are in tenths, molecular weight and LogP as      *)
(* computed by RDKit are in thousandths, and the MW / LogP stored in a     *)
(* record (after round(x, 2)) are in hundredths.                           *)
(***************************************************************************)
EXTENDS Integers, Sequences, FiniteSets, TLC

\* ------------------------------------------------------------------ bounds
\* Largest number of data rows of an input table.
MaxRows == 3

\* --------------------------------------------------------------- constants
\* Lipinski thresholds (lines 89-92) and the tolerated violations (line 94).
MW_LIMIT == 500
LOGP_LIMIT == 5
HDONORS_LIMIT == 5
HACCEPTORS_LIMIT == 10
VIOLATIONS_ALLOWED == 1

\* Python's None in a record field (line 75), kept apart from every number.
None == -999999
\* The '-' placeholder written to Final_Rank of unranked rows (line 123);
\* it differs from every rank, which range(1, len + 1) starts at 1.
DASH == 0

\* A whole number in thousandths.
Milli(x) == x * 1000

\* ----------------------------------------------------------------- strings
\* Python strings as tuples of characters, so that comparison and
\* str.contains are computed rather than assumed.
PassChars == <<"P", "a", "s", "s">>
FailChars == <<"F", "a", "i", "l", " ", "(", "L", "i", "p", "i", "n", "s", "k",
               "i", " ", "V", "i", "o", "l", "a", "t", "i", "o", "n", ")">>
InvalidChars == <<"I", "n", "v", "a", "l", "i", "d", " ", "S", "M", "I", "L",
                  "E", "S">>

StatusChars(s) ==
    CASE s = "Pass" -> PassChars
      [] s = "Fail (Lipinski Violation)" -> FailChars
      [] s = "Invalid SMILES" -> InvalidChars

\* Unicode code point of the characters that occur in the status labels.
CharCode(c) ==
    CASE c = " " -> 32 [] c = "(" -> 40 [] c = ")" -> 41
      [] c = "E" -> 69 [] c = "F" -> 70 [] c = "I" -> 73 [] c = "L" -> 76
      [] c = "M" -> 77 [] c = "P" -> 80 [] c = "S" -> 83 [] c = "V" -> 86
      [] c = "a" -> 97 [] c = "d" -> 100 [] c = "i" -> 105 [] c = "k" -> 107
      [] c = "l" -> 108 [] c = "n" -> 110 [] c = "o" -> 111 [] c = "p" -> 112
      [] c = "s" -> 115 [] c = "t" -> 116 [] c = "v" -> 118

\* Python's str < str: lexicographic by code point, a proper prefix is less.
RECURSIVE StrLess(_, _)
StrLess(a, b) ==
    IF b = <<>> THEN FALSE
    ELSE IF a = <<>> THEN TRUE
    ELSE IF CharCode(Head(a)) # CharCode(Head(b))
         THEN CharCode(Head(a)) < CharCode(Head(b))
         ELSE StrLess(Tail(a), Tail(b))

\* Series.str.contains with a pattern of plain characters: the pattern
\* occurs at some offset of the string.
StrContains(s, pat) ==
    \E off \in 0..(Len(s) - Len(pat)) :
        \A j \in 1..Len(pat) : s[off + j] = pat[j]

\* ------------------------------------------------------------ the library
\* The notations of the model and what RDKit returns for them: no molecule
\* for an unparsable notation, otherwise a molecule, given by its descriptors
\* (MolWt and MolLogP in thousandths).
\*   m_clean  no rule violated
\*   m_edge   weight 500.004 (just over the limit), the other three
\*            descriptors exactly at their limits
\*   m_two    weight and LogP over their limits
\*   m_four   all four over their limits (600, 6, 6, 12)
Notations == {"InvalidSMILES", "m_clean", "m_edge", "m_two", "m_four"}

\* What Chem.MolFromSmiles returns for a notation it cannot parse (the
\* Python None that line 69 tests for).
NoMol == [parsed |-> FALSE]

MolFromSmiles(smiles) ==
    CASE smiles = "InvalidSMILES" -> NoMol
      [] smiles = "m_clean" ->
           [MolWt |-> 180159, MolLogP |-> 1310, NumHDonors |-> 1, NumHAcceptors |-> 4]
      [] smiles = "m_edge" ->
           [MolWt |-> 500004, MolLogP |-> 5000, NumHDonors |-> 5, NumHAcceptors |-> 10]
      [] smiles = "m_two" ->
           [MolWt |-> 600000, MolLogP |-> 6000, NumHDonors |-> 1, NumHAcceptors |-> 2]
      [] smiles = "m_four" ->
           [MolWt |-> 600000, MolLogP |-> 6000, NumHDonors |-> 6, NumHAcceptors |-> 12]

\* Docking scores of the model, in tenths: -7.5 and -7.2.
Scores == {-75, -72}

\* ---------------------------------------------------------------- helpers
\* round(x, 2) of a value given in thousandths, as hundredths: to the
\* nearest hundredth, an exact tie to the even one.
Round2(x) ==
    LET q == x \div 10
        r == x % 10
    IN  IF r < 5 THEN q
        ELSE IF r > 5 THEN q + 1
        ELSE IF q % 2 = 0 THEN q ELSE q + 1

\* Lines 88-92: one violation per rule, each comparison strict.
MwViolated(mw) == mw > Milli(MW_LIMIT)
LogpViolated(logp) == logp > Milli(LOGP_LIMIT)
\* Mutant: a donor count at the limit counts as a violation.
DonorsViolatedAtLimit(h_donors) == h_donors >= HDONORS_LIMIT

DonorsViolated(h_donors) == h_donors > HDONORS_LIMIT
AcceptorsViolated(h_acceptors) == h_acceptors > HACCEPTORS_LIMIT

B2N(b) == IF b THEN 1 ELSE 0

CountViolations(mol) ==
    B2N(MwViolated(mol.MolWt)) + B2N(LogpViolated(mol.MolLogP))
      + B2N(DonorsViolated(mol.NumHDonors))
      + B2N(AcceptorsViolated(mol.NumHAcceptors))

\* Mutant: one more violation tolerated.
IsDrugLikeUpToTwo(violations) == violations <= VIOLATIONS_ALLOWED + 1

\* Line 94.
IsDrugLike(violations) == violations <= VIOLATIONS_ALLOWED

\* Line 96.
StatusOf(violations) ==
    IF IsDrugLike(violations) THEN "Pass" ELSE "Fail (Lipinski Violation)"

\* Lines 71-76: the record of a row whose notation did not parse.  row is
\* the DataFrame index label the record gets in df_results (its position in
\* the input).
InvalidRecord(row, smiles, docking_score) ==
    [row |-> row, SMILES |-> smiles, Docking_Score |-> docking_score,
     Status |-> "Invalid SMILES",
     MW |-> None, LogP |-> None, HDonors |-> None, HAcceptors |-> None,
     Violations |-> None]

\* Lines 82-107: the record of a parsed row.
EvaluatedRecord(row, smiles, docking_score, mol) ==
    LET violations == CountViolations(mol)
    IN  [row |-> row, SMILES |-> smiles, Docking_Score |-> docking_score,
         Status |-> StatusOf(violations),
         MW |-> Round2(mol.MolWt), LogP |-> Round2(mol.MolLogP),
         HDonors |-> mol.NumHDonors, HAcceptors |-> mol.NumHAcceptors,
         Violations |-> violations]

\* Lines 115-116: the two masks of the partition.
IsPass(status) == status = "Pass"
\* Mutant: the failing frame takes the labels that contain 'Fail'.
IsFailLabel(status) == StrContains(StatusChars(status), <<"F", "a", "i", "l">>)

IsNotPass(status) == status # "Pass"

\* Line 119: sort_values(by='Docking_Score', ascending=True) orders a before
\* b only if this holds.
\* Mutant: ascending=False.
ScoreInOrderDescending(a, b) == a.Docking_Score >= b.Docking_Score

ScoreInOrder(a, b) == a.Docking_Score <= b.Docking_Score

Permutations_(n) == {p \in [1..n -> 1..n] : \A i, j \in 1..n : p[i] = p[j] => i = j}

\* Line 119 leaves kind at its default, 'quicksort', which pandas documents
\* as not stable: every arrangement of the rows that is ascending in the
\* score is a possible result; rows of equal score may come in any order.
SortByScoreOutcomes(df) ==
    LET n == Len(df)
        arranged == {[i \in 1..n |-> df[p[i]]] : p \in Permutations_(n)}
    IN  {s \in arranged : \A i \in 1..(n - 1) : ScoreInOrder(s[i], s[i + 1])}

WithRank(r, rank) ==
    [row |-> r.row, SMILES |-> r.SMILES, Docking_Score |-> r.Docking_Score,
     Status |-> r.Status, MW |-> r.MW, LogP |-> r.LogP, HDonors |-> r.HDonors,
     HAcceptors |-> r.HAcceptors, Violations |-> r.Violations,
     Final_Rank |-> rank]

\* Line 120: the i-th row of the sorted frame gets range(1, len + 1)[i].
\* Mutant: range(0, len).
RankAtFromZero(i) == i - 1

RankAt(i) == i

\* Lines 126-128, first key: Status, ascending=False (str comparison).
\* Mutant: Status ascending.
StatusInOrderAscending(a, b) == StrLess(StatusChars(a), StatusChars(b))

StatusInOrder(a, b) == StrLess(StatusChars(b), StatusChars(a))

\* Lines 126-128, second key: Final_Rank, ascending=True.  The column mixes
\* integers and the string '-'; the multi-key sort orders the distinct
\* values with the numbers first and the strings after them.
RankInOrder(x, y) ==
    IF x = DASH THEN FALSE
    ELSE IF y = DASH THEN TRUE
    ELSE x < y

\* a sorts strictly before b under by=['Status', 'Final_Rank'].
FinalBefore(a, b) ==
    \/ StatusInOrder(a.Status, b.Status)
    \/ /\ a.Status = b.Status
       /\ RankInOrder(a.Final_Rank, b.Final_Rank)

\* Mutant: a sort that is not stable, a row goes before the rows already
\* placed that have its keys.
UnstableInsert(sorted, x) ==
    LET stay == {i \in 1..Len(sorted) : FinalBefore(sorted[i], x)}
        k == Cardinality(stay)
    IN  SubSeq(sorted, 1, k) \o <<x>> \o SubSeq(sorted, k + 1, Len(sorted))

\* The multi-key sort is a stable one: a row goes after every row already
\* placed that it does not sort strictly before.
StableInsert(sorted, x) ==
    LET stay == {i \in 1..Len(sorted) : ~FinalBefore(x, sorted[i])}
        k == Cardinality(stay)
    IN  SubSeq(sorted, 1, k) \o <<x>> \o SubSeq(sorted, k + 1, Len(sorted))

RECURSIVE SortFinal(_)
SortFinal(df) ==
    IF df = <<>> THEN <<>>
    ELSE StableInsert(SortFinal(SubSeq(df, 1, Len(df) - 1)), df[Len(df)])

\* Line 155: (df_final['Status'] == 'Pass').sum()
CountPass(df) == Cardinality({i \in 1..Len(df) : df[i].Status = "Pass"})

\* Line 156: (df_final['Status'].str.contains('Fail')).sum()
CountFail(df) ==
    Cardinality({i \in 1..Len(df) :
                   StrContains(StatusChars(df[i].Status), <<"F", "a", "i", "l">>)})

\* ------------------------------------------------------------------ state
VARIABLES
    has_columns,  \* df_input has both the SMILES and Docking_Score columns
    df_input,     \* the rows of the input table: <<SMILES, Docking_Score>>
    pc,           \* position of the handler
    index,        \* the row the loop of line 62 is at (1-based)
    results,      \* the list of line 60
    df_pass,      \* line 115, then sorted (119) and ranked (120)
    df_fail,      \* line 116, then marked (123)
    df_final,     \* line 126
    pass_count,   \* line 155
    fail_count    \* line 156

vars == <<has_columns, df_input, pc, index, results, df_pass, df_fail,
          df_final, pass_count, fail_count>>

Rows == Notations \X Scores

Tables == UNION {[1..n -> Rows] : n \in 0..MaxRows}

\* The button is pressed on some table; nothing is computed yet.
Init ==
    /\ has_columns \in BOOLEAN
    /\ df_input \in Tables
    /\ pc = "check_columns"
    /\ index = 1
    /\ results = <<>>
    /\ df_pass = <<>>
    /\ df_fail = <<>>
    /\ df_final = <<>>
    /\ pass_count = 0
    /\ fail_count = 0

\* Lines 54-55: a required column is missing; the pipeline does not start.
MissingColumns ==
    /\ pc = "check_columns"
    /\ ~has_columns
    /\ pc' = "schema_error"
    /\ UNCHANGED <<has_columns, df_input, index, results, df_pass, df_fail,
                   df_final, pass_count, fail_count>>

\* Lines 56-60: both columns are there; results = [].
BeginLoop ==
    /\ pc = "check_columns"
    /\ has_columns
    /\ pc' = "loop"
    /\ results' = <<>>
    /\ index' = 1
    /\ UNCHANGED <<has_columns, df_input, df_pass, df_fail, df_final,
                   pass_count, fail_count>>

\* Lines 62-77: one iteration on a row whose notation does not parse.
InvalidRow ==
    /\ pc = "loop"
    /\ index <= Len(df_input)
    /\ LET smiles == df_input[index][1]
           docking_score == df_input[index][2]
       IN  /\ MolFromSmiles(smiles) = NoMol
           /\ results' = Append(results, InvalidRecord(index, smiles, docking_score))
    /\ index' = index + 1
    /\ UNCHANGED <<has_columns, df_input, pc, df_pass, df_fail, df_final,
                   pass_count, fail_count>>

\* Lines 62-67 and 79-107: one iteration on a row whose notation parses.
EvaluateRow ==
    /\ pc = "loop"
    /\ index <= Len(df_input)
    /\ LET smiles == df_input[index][1]
           docking_score == df_input[index][2]
           mol == MolFromSmiles(smiles)
       IN  /\ mol # NoMol
           /\ results' = Append(results,
                                EvaluatedRecord(index, smiles, docking_score, mol))
    /\ index' = index + 1
    /\ UNCHANGED <<has_columns, df_input, pc, df_pass, df_fail, df_final,
                   pass_count, fail_count>>

\* Lines 110-116 on an empty results list: pd.DataFrame([]) has no column at
\* all, df_results['Status'] raises KeyError, and line 180 reports it as
\* the error of the whole run.
PartitionKeyError ==
    /\ pc = "loop"
    /\ index > Len(df_input)
    /\ results = <<>>
    /\ pc' = "error"
    /\ UNCHANGED <<has_columns, df_input, index, results, df_pass, df_fail,
                   df_final, pass_count, fail_count>>

\* Lines 110-116: the loop has ended; split the records by status.
Partition ==
    /\ pc = "loop"
    /\ index > Len(df_input)
    /\ results # <<>>
    /\ df_pass' = SelectSeq(results, LAMBDA r : IsPass(r.Status))
    /\ df_fail' = SelectSeq(results, LAMBDA r : IsNotPass(r.Status))
    /\ pc' = "sort_pass"
    /\ UNCHANGED <<has_columns, df_input, index, results, df_final,
                   pass_count, fail_count>>

\* Line 119.
SortPass ==
    /\ pc = "sort_pass"
    /\ df_pass' \in SortByScoreOutcomes(df_pass)
    /\ pc' = "rank"
    /\ UNCHANGED <<has_columns, df_input, index, results, df_fail, df_final,
                   pass_count, fail_count>>

\* Line 120.
AssignRank ==
    /\ pc = "rank"
    /\ df_pass' = [i \in 1..Len(df_pass) |-> WithRank(df_pass[i], RankAt(i))]
    /\ pc' = "mark_fail"
    /\ UNCHANGED <<has_columns, df_input, index, results, df_fail, df_final,
                   pass_count, fail_count>>

\* Line 123.
MarkFail ==
    /\ pc = "mark_fail"
    /\ df_fail' = [i \in 1..Len(df_fail) |-> WithRank(df_fail[i], DASH)]
    /\ pc' = "recombine"
    /\ UNCHANGED <<has_columns, df_input, index, results, df_pass, df_final,
                   pass_count, fail_count>>

\* Lines 126-128.  ignore_index=True renumbers the rows of df_final; the
\* row field is kept in the model as the history of where a record came
\* from.
Recombine ==
    /\ pc = "recombine"
    /\ df_final' = SortFinal(df_pass \o df_fail)
    /\ pc' = "summary"
    /\ UNCHANGED <<has_columns, df_input, index, results, df_pass, df_fail,
                   pass_count, fail_count>>

\* Lines 155-156.
Summarize ==
    /\ pc = "summary"
    /\ pass_count' = CountPass(df_final)
    /\ fail_count' = CountFail(df_final)
    /\ pc' = "done"
    /\ UNCHANGED <<has_columns, df_input, index, results, df_pass, df_fail,
                   df_final>>

Next ==
    \/ MissingColumns
    \/ BeginLoop
    \/ InvalidRow
    \/ EvaluateRow
    \/ PartitionKeyError
    \/ Partition
    \/ SortPass
    \/ AssignRank
    \/ MarkFail
    \/ Recombine
    \/ Summarize

Spec == Init /\ [][Next]_vars

\* ----------------------------------------------------------------- claims
Done == pc = "done"

FinalRows == 1..Len(df_final)

PassRows == {i \in FinalRows : df_final[i].Status = "Pass"}

OtherRows == FinalRows \ PassRows

Unparsable(i) == MolFromSmiles(df_input[i][1]) = NoMol

\* Every record of results is in df_final exactly once.
FinalHoldsEveryRecord ==
    /\ Len(df_final) = Len(results)
    /\ \A k \in 1..Len(results) :
         \E i \in FinalRows :
            /\ df_final[i].row = results[k].row
            /\ df_final[i].Status = results[k].Status

\* C1: in the report of a completed run every record is present and no
\* record with another status comes before a record with status Pass.
PassBlockFirst ==
    Done =>
      /\ FinalHoldsEveryRecord
      /\ \A i, j \in FinalRows :
           (i < j /\ df_final[j].Status = "Pass") => df_final[i].Status = "Pass"

\* C1 witness: a completed run whose input has a failing row, then an
\* unparsable row, then a passing row.
PassBlockFirstWitness ==
    /\ Done
    /\ Len(results) = 3
    /\ results[1].Status = "Fail (Lipinski Violation)"
    /\ results[2].Status = "Invalid SMILES"
    /\ results[3].Status = "Pass"
    /\ df_final[1].Status = "Pass"

\* C2: in the report of a completed run the Pass records come in ascending
\* rank, and a lower rank never has a higher score.
PassRanksFollowScores ==
    Done =>
      \A i, j \in PassRows :
        /\ i < j => df_final[i].Final_Rank < df_final[j].Final_Rank
        /\ df_final[i].Final_Rank < df_final[j].Final_Rank
             => df_final[i].Docking_Score <= df_final[j].Docking_Score

\* C2 witness: the row with the lower score came second in the input and
\* holds rank 1 in the report.
PassRanksFollowScoresWitness ==
    /\ Done
    /\ \E i, j \in PassRows :
         /\ df_final[i].row > df_final[j].row
         /\ df_final[i].Docking_Score < df_final[j].Docking_Score
         /\ df_final[i].Final_Rank = 1
         /\ df_final[j].Final_Rank = 2

\* C3: after a completed run the ranks of the Pass records are the numbers
\* 1..k, each once, k the number of Pass records.
RanksAreOneToK ==
    Done =>
      LET k == Cardinality({n \in 1..Len(results) : results[n].Status = "Pass"})
      IN  /\ Cardinality(PassRows) = k
          /\ {df_final[i].Final_Rank : i \in PassRows} = 1..k
          /\ \A i, j \in PassRows :
               df_final[i].Final_Rank = df_final[j].Final_Rank => i = j

\* C3 witness: a completed run with two Pass records and one other record.
RanksAreOneToKWitness ==
    /\ Done
    /\ Cardinality(PassRows) = 2
    /\ Cardinality(OtherRows) = 1

DescriptorsPresent(r) ==
    /\ r.MW # None
    /\ r.LogP # None
    /\ r.HDonors # None
    /\ r.HAcceptors # None

DescriptorsAbsent(r) ==
    /\ r.MW = None
    /\ r.LogP = None
    /\ r.HDonors = None
    /\ r.HAcceptors = None

\* C4: every record of a completed run has status Pass exactly if its
\* descriptors are present and its violation count is at most 1, has a rank
\* other than the '-' placeholder exactly if its status is Pass, and has its
\* four descriptors null together; the record of an unparsable row has the
\* four descriptors and the violation count null.
RecordInvariant ==
    Done =>
      \A i \in FinalRows :
        LET r == df_final[i]
        IN  /\ r.Status = "Pass"
                 <=> (DescriptorsPresent(r) /\ r.Violations # None
                        /\ r.Violations <= 1)
            /\ r.Final_Rank # DASH <=> r.Status = "Pass"
            /\ r.Final_Rank # DASH => r.Final_Rank >= 1
            /\ DescriptorsPresent(r) \/ DescriptorsAbsent(r)
            /\ MolFromSmiles(r.SMILES) = NoMol
                 => (DescriptorsAbsent(r) /\ r.Violations = None)
            /\ MolFromSmiles(r.SMILES) # NoMol
                 => (DescriptorsPresent(r) /\ r.Violations # None)

\* C4 witness: a completed run whose report has a Pass record, a record with
\* two violations and the record of an unparsable row.
RecordInvariantWitness ==
    /\ Done
    /\ \E i \in FinalRows : df_final[i].Status = "Pass"
    /\ \E i \in FinalRows : df_final[i].Violations = 2
    /\ \E i \in FinalRows : df_final[i].Status = "Invalid SMILES"

\* C5: a run on a table with both columns and an unparsable row never ends
\* in an error; every row is taken into results in its turn, and the report
\* of the completed run has one record per input row, with the row's
\* notation and score, Invalid SMILES for an unparsable row and an evaluated
\* record for every other row.
UnparsableRowsAreKept ==
    (has_columns /\ \E n \in 1..Len(df_input) : Unparsable(n)) =>
      /\ pc \notin {"error", "schema_error"}
      /\ pc = "loop" => Len(results) = index - 1
      /\ pc \notin {"check_columns", "loop"} => Len(results) = Len(df_input)
      /\ Done =>
           /\ Len(df_final) = Len(df_input)
           /\ \A n \in 1..Len(df_input) :
                \E i \in FinalRows :
                   /\ df_final[i].row = n
                   /\ df_final[i].SMILES = df_input[n][1]
                   /\ df_final[i].Docking_Score = df_input[n][2]
                   /\ Unparsable(n) <=> df_final[i].Status = "Invalid SMILES"
                   /\ ~Unparsable(n) => df_final[i].Violations # None

\* C5 witness: a completed run on three rows, the second unparsable.
UnparsableRowsAreKeptWitness ==
    /\ Done
    /\ Len(df_input) = 3
    /\ ~Unparsable(1)
    /\ Unparsable(2)
    /\ ~Unparsable(3)
    /\ Len(df_final) = 3

\* C6: after a completed run pass_count is the number of Pass records,
\* fail_count the number of all other records (violation failures and
\* unparsable rows), and the two add up to the number of input rows.
CountsCoverEveryRow ==
    Done =>
      /\ pass_count = Cardinality(PassRows)
      /\ fail_count = Cardinality(OtherRows)
      /\ pass_count + fail_count = Len(df_input)

\* C7 as stated: in the report any two records that are not Pass are in
\* the order of their input rows, whatever their statuses.
OthersKeepInputOrder ==
    Done =>
      \A i, j \in OtherRows : i < j => df_final[i].row < df_final[j].row

\* C7 as amended: in the report the records that are not Pass come grouped
\* by status, every Invalid SMILES record before every Fail (Lipinski
\* Violation) record, and two of them with the same status are in the order
\* of their input rows.
OthersGroupedThenInputOrder ==
    Done =>
      \A i, j \in OtherRows :
        i < j =>
          IF df_final[i].Status = df_final[j].Status
          THEN df_final[i].row < df_final[j].row
          ELSE /\ df_final[i].Status = "Invalid SMILES"
               /\ df_final[j].Status = "Fail (Lipinski Violation)"

\* C7 witness: the input is a failing row, an unparsable row and a failing
\* row; the report lists the unparsable one first.
OthersGroupedWitness ==
    /\ Done
    /\ Len(results) = 3
    /\ results[1].Status = "Fail (Lipinski Violation)"
    /\ results[2].Status = "Invalid SMILES"
    /\ results[3].Status = "Fail (Lipinski Violation)"
    /\ df_final[1].row = 2

\* C8: of two Pass records with equal scores the one from the earlier
\* input row has the lower rank.
TiesKeepInputOrder ==
    Done =>
      \A i, j \in PassRows :
        ( /\ df_final[i].Docking_Score = df_final[j].Docking_Score
          /\ df_final[i].row < df_final[j].row )
          => df_final[i].Final_Rank < df_final[j].Final_Rank

\* C9: a run on a table with both columns and no row ends completed, not
\* in the run-level error, with an empty report and both counts 0.
EmptyTableCompletes ==
    (has_columns /\ df_input = <<>>) =>
      /\ pc # "error"
      /\ Done => (df_final = <<>> /\ pass_count = 0 /\ fail_count = 0)

\* The number of rules that the values given violate; weight and coefficient
\* in hundredths.
RulesViolated(mw, logp, donors, acceptors) ==
    Cardinality({n \in 1..4 :
        \/ n = 1 /\ mw > 50000
        \/ n = 2 /\ logp > 500
        \/ n = 3 /\ donors > 5
        \/ n = 4 /\ acceptors > 10})

\* C10 as stated: the violation count of a record with descriptors is the
\* number of rules that the values stored in the record violate.
ViolationsMatchStoredValues ==
    Done =>
      \A i \in FinalRows :
        LET r == df_final[i]
        IN  DescriptorsPresent(r) =>
              r.Violations = RulesViolated(r.MW, r.LogP, r.HDonors, r.HAcceptors)

\* C10 as amended: the violation count of a record with descriptors is the
\* number of rules violated by the weight and coefficient as computed,
\* before rounding, and by the stored donor and acceptor counts; it is in
\* 0..4, and it exceeds the number of rules the stored values violate only
\* where a computed weight above 500 is stored as 500.00 or a computed
\* coefficient above 5 is stored as 5.00.
ViolationsMatchComputedValues ==
    Done =>
      \A i \in FinalRows :
        LET r == df_final[i]
            mol == MolFromSmiles(r.SMILES)
            stored == RulesViolated(r.MW, r.LogP, r.HDonors, r.HAcceptors)
        IN  DescriptorsPresent(r) =>
              /\ r.Violations \in 0..4
              /\ r.Violations =
                   Cardinality({n \in 1..4 :
                       \/ n = 1 /\ mol.MolWt > 500000
                       \/ n = 2 /\ mol.MolLogP > 5000
                       \/ n = 3 /\ r.HDonors > 5
                       \/ n = 4 /\ r.HAcceptors > 10})
              /\ stored <= r.Violations
              /\ stored < r.Violations =>
                   \/ r.MW = 50000 /\ mol.MolWt > 500000
                   \/ r.LogP = 500 /\ mol.MolLogP > 5000

\* C10 witness: the report has the record of a molecule of weight 500.004,
\* stored as 500.00, with coefficient, donors and acceptors exactly at
\* their limits and one violation counted.
ViolationsMatchComputedWitness ==
    /\ Done
    /\ \E i \in FinalRows :
         /\ df_final[i].MW = 50000
         /\ df_final[i].LogP = 500
         /\ df_final[i].HDonors = 5
         /\ df_final[i].HAcceptors = 10
         /\ df_final[i].Violations = 1

====
